---- MODULE Spec2Model ----
(***************************************************************************)
(* Retail Arbitrage Scout: the search pipeline of api.py (start_search,    *)
(* run_full_search, process_store_inventory, check_and_save_prices,        *)
(* calculate_and_save_opportunity) over the repositories of database.py,   *)
(* with the store locator and the store scrapers of scraper_module.py,     *)
(* the price comparison of market_checker.py and the profit calculation    *)
(* of profit_calculator.py.                                                *)
(*                                                                         *)
(* Money is held in cents, rates in thousandths, percentages in whole      *)
(* percents.  Python's None is the string "None".  A call that can raise   *)
(* returns a record with a field raised.                                   *)
(***************************************************************************)
EXTENDS Integers, Sequences, FiniteSets, TLC

VARIABLES
    active_searches,  \* api.py:122, search_id -> search state (a sequence, index = id)
    db,               \* the committed content of the tables of database.py
    task,             \* per search: the position and the locals of run_full_search
    turn,             \* the search that runs now and has not reached an await (0: none)
    obs,              \* per search: what has happened to it (history, read by the properties)
    ev,               \* the last execution of the per-item opportunity step
    lc,               \* a call of find_stores on its own
    sc,               \* a call of scrape_walmart_store / scrape_homedepot_store on its own
    cp,               \* a call of compare_prices on its own
    sv,               \* calls of check_and_save_prices on their own
    pf,               \* calls of the ProfitCalculator on their own
    pr,               \* the parsing of one product of a results page on its own
    rt,               \* a call of retry_with_backoff on its own
    ty                \* the opportunity count that ends run_full_search on its own

vars == <<active_searches, db, task, turn, obs, ev, lc, sc, cp, sv, pf, pr, rt, ty>>

None == "None"

\* None where a number is expected (no amount or rate of the model is negative).
NoNumber == 0 - 1

(***************************************************************************)
(* Bounds of the model.                                                    *)
(***************************************************************************)
MaxSearches == 1      \* searches started
MaxStores == 1        \* stores a retailer's store finder lists, in a search
MaxItems == 2         \* items one store scrape returns, in a search
MaxListings == 1      \* listings one marketplace query returns, in a search
MaxEntries == 2       \* store entries of a store-finder page, find_stores on its own
MaxQueryListings == 2 \* listings of one marketplace query, compare_prices on its own
MaxCalls == 3         \* items processed, check_and_save_prices on its own
MaxRetries == 3       \* the largest max_retries given to retry_with_backoff

Retailers == {"walmart", "homedepot"}
Marketplaces == {"ebay", "amazon"}
StoreIds == {"s1", "s2"}
Malformed == "malformed"

\* The sequences over S of length at most n.
SeqUpTo(S, n) == UNION {[1..k -> S] : k \in 0..n}

Min(a, b) == IF a <= b THEN a ELSE b

(***************************************************************************)
(* Store Locator, scraper_module.py:674-796.                               *)
(*                                                                         *)
(* A store-finder page: fetch is "error" when the browser, the navigation  *)
(* or json.loads raises, "nojson" when the page holds no state block, and  *)
(* "ok" when the block parses; entries are the elements of its stores      *)
(* list, a store id or Malformed (an element the mapping raises on, such   *)
(* as one whose address is null); close is "fail" when browser.close()     *)
(* or the exit of async_playwright raises after the mapping.               *)
(***************************************************************************)
LocatorPages(n) ==
    {[fetch |-> f, entries |-> <<>>, close |-> "ok"] : f \in {"error", "nojson"}}
    \cup {[fetch |-> "ok", entries |-> e, close |-> c] :
             e \in SeqUpTo(StoreIds \cup {Malformed}, n), c \in {"ok", "fail"}}

StoreRecord(retailer, id) == [store_id |-> id, retailer |-> retailer]

\* The for loop of a locator: stores.append for each element, until one raises.
RECURSIVE MapStores(_, _, _)
MapStores(retailer, entries, acc) ==
    IF entries = <<>> THEN [raised |-> FALSE, stores |-> acc]
    ELSE IF Head(entries) = Malformed THEN [raised |-> TRUE, stores |-> acc]
    ELSE MapStores(retailer, Tail(entries), Append(acc, StoreRecord(retailer, Head(entries))))

\* The try block of a locator: what stores holds when it ends, and whether it raised.
LocatorTry(retailer, page) ==
    IF page.fetch = "error" THEN [raised |-> TRUE, stores |-> <<>>]
    ELSE IF page.fetch = "nojson" THEN [raised |-> FALSE, stores |-> <<>>]
    ELSE LET mapped == MapStores(retailer, page.entries, <<>>)
         IN  [raised |-> mapped.raised \/ page.close = "fail", stores |-> mapped.stores]

\* A locator whose except clause is missing: the exception leaves the call.
LocatorNoExcept(retailer, page) ==
    LocatorTry(retailer, page)

\* try ... except Exception: print ... ; return stores
Locator(retailer, page) ==
    [raised |-> FALSE, stores |-> LocatorTry(retailer, page).stores]

find_walmart_stores(page) == Locator("walmart", page)

find_homedepot_stores(page) == Locator("homedepot", page)

\* Whether the locator of a page failed (its except clause ran).
LocatorFailed(page) == LocatorTry("walmart", page).raised

\* find_stores: the two locators in turn; an exception of either leaves the call.
find_stores(pages) ==
    LET w == find_walmart_stores(pages["walmart"])
        h == find_homedepot_stores(pages["homedepot"])
    IN  IF w.raised \/ h.raised
        THEN [raised |-> TRUE, stores |-> <<>>]
        ELSE [raised |-> FALSE,
              stores |-> [r \in Retailers |-> IF r = "walmart" THEN w.stores ELSE h.stores]]

(***************************************************************************)
(* Inventory Scraper, scraper_module.py:40-95, 177-244, 423-493, 772-785.  *)
(*                                                                         *)
(* What the retailer's site does during one store scrape: startup is       *)
(* "fail" when StealthScraper.__aenter__ raises (playwright or the browser *)
(* cannot start), teardown is "fail" when __aexit__ raises, and each of    *)
(* the two deal-classification passes is [kind, items]: kind "error" (the  *)
(* navigation raises), "captcha" (handle_captcha finds a marker) or "ok",  *)
(* with the items the page yields.  An item parsed from the page's JSON    *)
(* (_parse_walmart_product, _parse_homedepot_product) carries the product  *)
(* dict as raw_data and the upc the dict holds, if any; an item parsed     *)
(* from the DOM has neither.                                               *)
(***************************************************************************)
Products == {"p1"}
Upcs == {"u1"}
BuyPrices == {1000}

ScrapedItem ==
    {i \in [product_id : Products, upc : Upcs \cup {None}, current_price : BuyPrices,
            raw_data : {"dict", None}] :
        i.upc # None => i.raw_data = "dict"}

Passes(n) ==
    {[kind |-> "error", items |-> <<>>], [kind |-> "captcha", items |-> <<>>]}
    \cup {[kind |-> "ok", items |-> i] : i \in SeqUpTo(ScrapedItem, n)}

Sites(n) ==
    {s \in [startup : {"ok", "fail"}, teardown : {"ok", "fail"},
            first : Passes(n), second : Passes(n)] :
        /\ Len(s.first.items) + Len(s.second.items) <= n
        /\ s.startup = "fail" =>
              /\ s.teardown = "ok"
              /\ s.first.kind = "error" /\ s.second.kind = "error"}

\* The try block of a pass: whether it raised, and what items holds when it ends.
PassTry(pass) ==
    IF pass.kind = "error" THEN [raised |-> TRUE, items |-> <<>>]
    ELSE IF pass.kind = "captcha" THEN [raised |-> FALSE, items |-> <<>>]
    ELSE [raised |-> FALSE, items |-> pass.items]

\* search_clearance_by_store, search_rollback_by_store, search_special_buy_by_store:
\* items = []; try: goto; captcha -> return items; items.extend(...) except: print;
\* return items
search_pass(pass) ==
    [raised |-> FALSE, items |-> PassTry(pass).items]

\* async with Scraper() as scraper: first pass, second pass, return first + second
scrape_store(site) ==
    IF site.startup = "fail" THEN [raised |-> TRUE, items |-> <<>>]
    ELSE LET a == search_pass(site.first)
             b == search_pass(site.second)
         IN  IF a.raised \/ b.raised \/ site.teardown = "fail"
             THEN [raised |-> TRUE, items |-> <<>>]
             ELSE [raised |-> FALSE, items |-> a.items \o b.items]

scrape_walmart_store(site) == scrape_store(site)

scrape_homedepot_store(site) == scrape_store(site)

(***************************************************************************)
(* The product parsers, scraper_module.py:329-420 and 571-671.             *)
(*                                                                         *)
(* A value of the page's JSON is missing, a number (in cents) or a text    *)
(* that float() cannot convert.  The text of a DOM price element either    *)
(* holds a price the parser's pattern finds and float() converts, holds    *)
(* no match, or holds a match float() cannot convert ("$,").               *)
(* A parser returns the set of the items it emits: none or one.            *)
(***************************************************************************)
Missing == [kind |-> "missing", value |-> 0]

PageValues ==
    {Missing, [kind |-> "text", value |-> 0]}
    \cup {[kind |-> "number", value |-> v] : v \in {0, 1999, 0 - 500}}

\* Python's truth value of a page value (None, 0 and '' are false).
Truthy(v) == v.kind = "text" \/ (v.kind = "number" /\ v.value # 0)

\* a or b
Either(a, b) == IF Truthy(a) THEN a ELSE b

\* The end of both JSON parsers: `if not current_price: return None`, then
\* float(current_price), whose ValueError the except clause turns into None.
EmitParsed(product_id, current_price) ==
    IF ~product_id \/ ~Truthy(current_price) \/ current_price.kind = "text" THEN {}
    ELSE {[current_price |-> current_price.value, raw_data |-> "dict"]}

\* _parse_walmart_product: price.currentPrice.price, 0 when missing.
parse_walmart_product(product) ==
    EmitParsed(product.id, product.currentPrice)

\* _parse_homedepot_product: specialBuy or clearance, else price.value.
parse_homedepot_product(product) ==
    EmitParsed(product.id, Either(Either(product.specialBuy, product.clearance),
                                  product.value))

ElementPrices == {"none", "$19.99", "See price in cart", "$,"}

\* _parse_walmart_html_element, _parse_homedepot_html_element: without a price
\* element, or without a match in its text, current_price is 0 and the item is
\* returned all the same; a match that float() rejects raises, and None is returned.
parse_html_element(elem) ==
    IF ~elem.id \/ elem.price = "$," THEN {}
    ELSE {[current_price |-> IF elem.price = "$19.99" THEN 1999 ELSE 0,
           raw_data |-> None]}

parse_walmart_html_element(elem) == parse_html_element(elem)

parse_homedepot_html_element(elem) == parse_html_element(elem)

\* The products of a results page: [path, retailer, id, and the price fields].
PageProducts ==
    {[path |-> "json", retailer |-> "walmart", id |-> i, currentPrice |-> c] :
        i \in BOOLEAN, c \in PageValues}
    \cup {[path |-> "json", retailer |-> "homedepot", id |-> i, specialBuy |-> a,
            clearance |-> b, value |-> c] :
              i \in BOOLEAN, a \in PageValues, b \in PageValues, c \in PageValues}
    \cup {[path |-> "dom", retailer |-> r, id |-> i, price |-> t] :
              r \in Retailers, i \in BOOLEAN, t \in ElementPrices}

\* The current price a product shows, when it shows one that can be parsed: the
\* set is empty when the price is missing or unparseable.
ShownPrice(product) ==
    IF product.path = "dom"
    THEN IF product.price = "$19.99" THEN {1999} ELSE {}
    ELSE LET v == IF product.retailer = "walmart" THEN product.currentPrice
                  ELSE Either(Either(product.specialBuy, product.clearance), product.value)
         IN  IF v.kind = "number" THEN {v.value} ELSE {}

(***************************************************************************)
(* Price comparison, market_checker.py:459-571.                            *)
(*                                                                         *)
(* The outcome of one marketplace query: kind "ok" with its listings,      *)
(* "failed" (the client caught its own failure and returns []) or          *)
(* "raised" (an exception leaves the query coroutine).  A listing is its   *)
(* marketplace and its total_price.                                        *)
(***************************************************************************)
SellPrices == {2000, 3000}

Listing(m, p) == [marketplace |-> m, total_price |-> p]

Queries(m, n) ==
    {[kind |-> "failed", listings |-> <<>>], [kind |-> "raised", listings |-> <<>>]}
    \cup {[kind |-> "ok", listings |-> [i \in 1..Len(ps) |-> Listing(m, ps[i])]] :
             ps \in SeqUpTo(SellPrices, n)}

QueryOutcomes(n) == {q \in [Marketplaces -> UNION {Queries(m, n) : m \in Marketplaces}] :
                        \A m \in Marketplaces : q[m] \in Queries(m, n)}

\* What asyncio.gather(..., return_exceptions=True) hands back for one query:
\* its list, or the exception object.
Gathered(q) ==
    IF q.kind = "raised" THEN [is_list |-> FALSE, list |-> <<>>]
    ELSE [is_list |-> TRUE, list |-> q.listings]

\* gather without return_exceptions: the first exception leaves compare_prices.
compare_prices_propagating(upc, product_name, outcomes) ==
    IF upc = None /\ product_name = None
    THEN [raised |-> FALSE, results |-> [m \in Marketplaces |-> <<>>]]
    ELSE IF \E m \in Marketplaces : outcomes[m].kind = "raised"
         THEN [raised |-> TRUE, results |-> [m \in Marketplaces |-> <<>>]]
         ELSE [raised |-> FALSE, results |-> [m \in Marketplaces |-> outcomes[m].listings]]

\* PriceComparisonEngine.compare_prices with check_ebay = check_amazon = True:
\* one task per marketplace when a upc or a product name is given, gathered with
\* return_exceptions=True; a result that is a list replaces the marketplace's [].
compare_prices(upc, product_name, outcomes) ==
    IF upc = None /\ product_name = None
    THEN [raised |-> FALSE, results |-> [m \in Marketplaces |-> <<>>]]
    ELSE [raised |-> FALSE,
          results |-> [m \in Marketplaces |->
                          IF Gathered(outcomes[m]).is_list
                          THEN Gathered(outcomes[m]).list ELSE <<>>]]

\* The tasks compare_prices builds, in their order: eBay, then Amazon.
Tasks == <<"ebay", "amazon">>

\* What results_list holds for a query that has not finished.
NotDone == [is_list |-> FALSE, list |-> <<>>]

\* A wait that ends as soon as one query has finished.
AnyDone(pending) == pending # Marketplaces

\* await asyncio.gather(*tasks, return_exceptions=True) resumes when every task
\* is done.
AllDone(pending) == pending = {}

\* The loop over zip(tasks, results_list): the i-th result belongs to the i-th
\* task's marketplace, and replaces its [] when it is a list.
ZipResults(results_list) ==
    [m \in Marketplaces |->
        LET i == CHOOSE k \in 1..Len(Tasks) : Tasks[k] = m
        IN  IF results_list[i].is_list THEN results_list[i].list ELSE <<>>]

\* list.sort(key=total_price) is stable: an element goes after the elements
\* whose key is lower or equal.  InsertFirst puts it before its equals.
InsertFirst(sorted, x) ==
    LET before == {i \in 1..Len(sorted) : sorted[i].total_price < x.total_price}
    IN  SubSeq(sorted, 1, Cardinality(before)) \o <<x>>
        \o SubSeq(sorted, Cardinality(before) + 1, Len(sorted))

Insert(sorted, x) ==
    LET before == {i \in 1..Len(sorted) : sorted[i].total_price <= x.total_price}
    IN  SubSeq(sorted, 1, Cardinality(before)) \o <<x>>
        \o SubSeq(sorted, Cardinality(before) + 1, Len(sorted))

RECURSIVE SortByTotalPrice(_)
SortByTotalPrice(listings) ==
    IF listings = <<>> THEN <<>>
    ELSE Insert(SortByTotalPrice(SubSeq(listings, 1, Len(listings) - 1)),
                listings[Len(listings)])

\* PriceComparisonEngine.get_best_price after its compare_prices: the listings of
\* results.values() in the order of the dict, sorted; None (the empty set) when
\* there is none, else the first.
get_best_price(results) ==
    LET all_listings == results["ebay"] \o results["amazon"]
    IN  IF all_listings = <<>> THEN {}
        ELSE {SortByTotalPrice(all_listings)[1]}

\* check_marketplace_prices: engine = PriceComparisonEngine(); the constructors of
\* the clients (fake_useragent.UserAgent()) may raise before any query is made.
check_marketplace_prices(upc, product_name, engine_ok, outcomes) ==
    IF ~engine_ok THEN [raised |-> TRUE, results |-> [m \in Marketplaces |-> <<>>]]
    ELSE compare_prices(upc, product_name, outcomes)

(***************************************************************************)
(* Profit Calculator, profit_calculator.py:53-202, config.py:78-93.        *)
(***************************************************************************)
AMAZON_FEE_PERCENT == 150
EBAY_FEE_PERCENT == 130
PAYPAL_FEE_PERCENT == 29
PAYPAL_FEE_FIXED == 30
DEFAULT_SALES_TAX == 8
DEFAULT_SHIPPING_COST == 500
MIN_PROFIT_AMOUNT == 500
MIN_PROFIT_MARGIN == 20

\* The attributes of the ProfitConfig instance PROFIT_CONFIG (the dataclass fields).
ProfitConfigFields ==
    {"AMAZON_FEE_PERCENT", "EBAY_FEE_PERCENT", "PAYPAL_FEE_PERCENT", "PAYPAL_FEE_FIXED",
     "DEFAULT_SALES_TAX", "DEFAULT_SHIPPING_COST", "MIN_PROFIT_AMOUNT", "MIN_PROFIT_MARGIN"}

\* round(n / d) for d > 0, to the nearest integer, a tie to the even one.
RoundDiv(n, d) ==
    LET q == n \div d
        r == n % d
    IN  IF 2 * r < d THEN q
        ELSE IF 2 * r > d THEN q + 1
        ELSE IF q % 2 = 0 THEN q ELSE q + 1

\* Python's `x or default`: the default replaces None and zero alike.
OrDefault(x, default) == IF x = NoNumber \/ x = 0 THEN default ELSE x

\* ProfitCalculator.__init__
ProfitCalculator(sales_tax_rate, shipping_cost, min_profit_amount, min_profit_margin) ==
    [sales_tax_rate |-> OrDefault(sales_tax_rate, DEFAULT_SALES_TAX),
     shipping_cost |-> OrDefault(shipping_cost, DEFAULT_SHIPPING_COST),
     min_profit_amount |-> OrDefault(min_profit_amount, MIN_PROFIT_AMOUNT),
     min_profit_margin |-> OrDefault(min_profit_margin, MIN_PROFIT_MARGIN)]

\* calculate_buy_cost: total_buy_cost = round(item_price + item_price * tax_rate, 2)
calculate_buy_cost(calc, item_price) ==
    [sales_tax_amount |-> RoundDiv(item_price * calc.sales_tax_rate, 100),
     total_buy_cost |-> RoundDiv(item_price * (100 + calc.sales_tax_rate), 100)]

\* _estimate_fba_fee: the fulfillment fee of the price tier.
estimate_fba_fee(sell_price) ==
    IF sell_price < 1000 THEN 322
    ELSE IF sell_price < 2000 THEN 450
    ELSE IF sell_price < 5000 THEN 550
    ELSE IF sell_price < 10000 THEN 650
    ELSE 800

\* calculate_amazon_fees reads PROFIT_CONFIG.CATEGORY_MARGINS before anything else:
\* CATEGORY_MARGINS is a module-level dict of config.py, not an attribute of
\* PROFIT_CONFIG, so the read raises AttributeError.
calculate_amazon_fees(sell_price, category) ==
    IF "CATEGORY_MARGINS" \notin ProfitConfigFields
    THEN [raised |-> TRUE, total_fees |-> 0]
    ELSE [raised |-> FALSE,
          total_fees |-> RoundDiv(sell_price * AMAZON_FEE_PERCENT
                                  + 1000 * estimate_fba_fee(sell_price)
                                  + (IF category \in {"Books", "Music", "DVD"}
                                     THEN 1000 * 180 ELSE 0), 1000)]

\* calculate_ebay_fees: round(final_value_fee + payment_fee + insertion_fee, 2)
calculate_ebay_fees(sell_price) ==
    [raised |-> FALSE,
     total_fees |-> RoundDiv(sell_price * EBAY_FEE_PERCENT
                             + sell_price * PAYPAL_FEE_PERCENT
                             + 1000 * PAYPAL_FEE_FIXED, 1000)]

\* The profitability gate of calculate_profit (lines 167-170), on the unrounded
\* margin net_profit / sell_price * 100 (0 when sell_price is not positive).
IsProfitable(calc, net_profit, sell_price) ==
    /\ net_profit >= calc.min_profit_amount
    /\ IF sell_price > 0
       THEN net_profit * 100 >= calc.min_profit_margin * sell_price
       ELSE 0 >= calc.min_profit_margin

\* The marketplace tags a caller may pass, and str.lower() on them.
MarketplaceTags == {"amazon", "Amazon", "ebay", "walmart"}

Lower(tag) == IF tag = "Amazon" THEN "amazon" ELSE tag

Categories == {"Other", "Books"}

\* The margin and the return on investment that calculate_profit computes (lines
\* 163-164), floats held here to the thousandth of a percent; 0 when the divisor
\* is not positive.
PercentOf(net_profit, base) ==
    IF base > 0 THEN RoundDiv(net_profit * 100000, base) ELSE 0

\* _calculate_opportunity_score, in thousandths of a point, from net_profit in
\* cents and the two percentages in thousandths of a percent: each part has an
\* upper limit, and so has the total; nothing limits them from below.
calculate_opportunity_score(net_profit, profit_margin, roi_percent) ==
    LET profit_score == Min(RoundDiv(net_profit, 2), 40000)
        margin_score == Min(RoundDiv(profit_margin, 2), 30000)
        roi_score == Min(RoundDiv(roi_percent, 3), 30000)
        total_score == profit_score + margin_score + roi_score
    IN  Min(total_score, 100000)

\* calculate_profit with include_shipping = True.  The analysis holds net_profit
\* in cents, profit_margin and roi_percent rounded to the hundredth of a percent
\* and opportunity_score rounded to the hundredth of a point, as round(x, 2)
\* leaves them; is_profitable is decided before the rounding.
calculate_profit_in(calc, buy_price, sell_price, marketplace, category) ==
    LET buy_cost == calculate_buy_cost(calc, buy_price)
        fees == IF Lower(marketplace) = "amazon"
                THEN calculate_amazon_fees(sell_price, category)
                ELSE calculate_ebay_fees(sell_price)
        net == sell_price - (buy_cost.total_buy_cost + fees.total_fees + calc.shipping_cost)
        score == calculate_opportunity_score(
                     net, PercentOf(net, sell_price),
                     PercentOf(net, buy_cost.total_buy_cost))
    IN  [raised |-> fees.raised,
         marketplace |-> marketplace,
         total_buy_cost |-> buy_cost.total_buy_cost,
         total_fees |-> fees.total_fees,
         net_profit |-> net,
         profit_margin |-> IF sell_price > 0 THEN RoundDiv(net * 10000, sell_price) ELSE 0,
         roi_percent |-> IF buy_cost.total_buy_cost > 0
                         THEN RoundDiv(net * 10000, buy_cost.total_buy_cost) ELSE 0,
         opportunity_score |-> RoundDiv(score, 10),
         is_profitable |-> ~fees.raised /\ IsProfitable(calc, net, sell_price)]

\* calculate_profit with the default category 'Other', as
\* calculate_and_save_opportunity calls it.
calculate_profit(calc, buy_price, sell_price, marketplace) ==
    calculate_profit_in(calc, buy_price, sell_price, marketplace, "Other")

\* compare_marketplaces: one analysis per marketplace whose price is given and
\* positive (`if price and price > 0`), amazon first; an exception of
\* calculate_profit leaves the function.
compare_marketplaces(calc, buy_price, amazon_price, ebay_price, category) ==
    LET given == {m \in Marketplaces :
                     LET price == IF m = "amazon" THEN amazon_price ELSE ebay_price
                     IN  price # NoNumber /\ price > 0}
        results == [m \in given |->
                       calculate_profit_in(calc, buy_price,
                                           IF m = "amazon" THEN amazon_price ELSE ebay_price,
                                           m, category)]
    IN  [raised |-> \E m \in given : results[m].raised, results |-> results]

\* min(values, key=net_profit) and max(values, key=net_profit): the first of the
\* extreme values in the order of the dict, amazon before ebay.
Extreme(results, among, least) ==
    LET best(m) == \A o \in among :
                      IF least THEN results[m].net_profit <= results[o].net_profit
                      ELSE results[m].net_profit >= results[o].net_profit
    IN  IF "amazon" \in among /\ best("amazon") THEN results["amazon"]
        ELSE results[CHOOSE m \in among : best(m)]

\* find_best_marketplace: None (the empty set here) without a comparison; min over
\* all the comparisons when none is profitable; max over the profitable ones.
find_best_marketplace(calc, buy_price, amazon_price, ebay_price, category) ==
    LET compared == compare_marketplaces(calc, buy_price, amazon_price, ebay_price, category)
        comparisons == compared.results
        profitable == {m \in DOMAIN comparisons : comparisons[m].is_profitable}
    IN  IF compared.raised THEN [raised |-> TRUE, best |-> {}]
        ELSE IF DOMAIN comparisons = {} THEN [raised |-> FALSE, best |-> {}]
        ELSE IF profitable = {}
        THEN [raised |-> FALSE, best |-> {Extreme(comparisons, DOMAIN comparisons, TRUE)}]
        ELSE [raised |-> FALSE, best |-> {Extreme(comparisons, profitable, FALSE)}]

(***************************************************************************)
(* Repositories, database.py:209-400.                                      *)
(*                                                                         *)
(* db.stores: a set of rows, at most one per store_id (the column is       *)
(* unique).  db.items: a set of inventory rows; a row is identified by     *)
(* its natural key <<store_id, product_id>>, which stands for its id.      *)
(* db.comparisons: a sequence of rows, in insertion order.                 *)
(* db.opportunities: a set of rows, at most one per item (unique column).  *)
(* db.history: the search_history rows, index = id.                        *)
(***************************************************************************)
OPPORTUNITY_LIMIT == 100

ItemKey(store_id, item) == <<store_id, item.product_id>>

\* StoreRepository.create_or_update: filter_by(store_id=...).first(), then setattr
\* of every field, or add.
StoreRepository_create_or_update(stores, store) ==
    {r \in stores : r.store_id # store.store_id} \cup {store}

\* InventoryRepository.create_or_update: filter_by(store_id, product_id).first(),
\* then setattr of every field, or add.
InventoryRepository_create_or_update(items, store_id, item) ==
    {r \in items : r.key # ItemKey(store_id, item)}
    \cup {[key |-> ItemKey(store_id, item), upc |-> item.upc,
           current_price |-> item.current_price]}

\* session.flush() after InventoryRepository.create_or_update (api.py:199): the
\* update of an existing row has set raw_data, a Text column, to the item's dict,
\* which the driver cannot bind; the creation of a row stores json.dumps of it.
FlushRaises(items, store_id, item) ==
    /\ \E r \in items : r.key = ItemKey(store_id, item)
    /\ item.raw_data = "dict"

\* The indexes of the rows of an item, and of one of its marketplaces.
RowsOf(rows, key) == {i \in 1..Len(rows) : rows[i].inventory_item_id = key}

RowsOfMarket(rows, key, m) == {i \in RowsOf(rows, key) : rows[i].marketplace = m}

FirstOf(S) == CHOOSE i \in S : \A j \in S : i <= j

\* A session's price comparisons: rows are the committed rows as the session holds
\* them (attributes it has set included), added are the rows it has add()ed; with
\* autoflush=False and no flush after add(), a query does not return added rows.
ComparisonRow(key, listing) ==
    [inventory_item_id |-> key, marketplace |-> listing.marketplace,
     total_price |-> listing.total_price, net_profit |-> NoNumber]

\* PriceComparisonRepository.create_or_update: the first row of (item, marketplace)
\* the query returns is overwritten, otherwise a new row is added.
PriceComparisonRepository_create_or_update(sess, key, listing) ==
    LET found == RowsOfMarket(sess.rows, key, listing.marketplace)
    IN  IF found # {}
        THEN [sess EXCEPT !.rows[FirstOf(found)] = ComparisonRow(key, listing)]
        ELSE [sess EXCEPT !.added = Append(@, ComparisonRow(key, listing))]

\* PriceComparisonRepository.get_best_price: the rows of the item ordered by
\* net_profit descending, first().  check_and_save_prices never sets net_profit,
\* so every row holds NULL there and the order leaves the choice to the database:
\* any row of the item the query sees may be the one returned.
PriceComparisonRepository_get_best_price(sess, key) ==
    {sess.rows[i] : i \in {j \in RowsOf(sess.rows, key) :
                              \A o \in RowsOf(sess.rows, key) :
                                 sess.rows[j].net_profit >= sess.rows[o].net_profit}}

\* OpportunityRepository.create_or_update: keyed by inventory_item_id.
OpportunityRepository_create_or_update(opps, opp) ==
    {r \in opps : r.inventory_item_id # opp.inventory_item_id} \cup {opp}

\* OpportunityRepository.get_high_opportunities(session, min_profit=...): the valid
\* rows, those of net_profit >= min_profit when min_profit is truthy, at most limit.
get_high_opportunities(opps, min_profit) ==
    LET valid == {r \in opps : r.is_valid}
        kept == IF min_profit # NoNumber /\ min_profit # 0
                THEN {r \in valid : r.net_profit >= min_profit} ELSE valid
    IN  Min(Cardinality(kept), OPPORTUNITY_LIMIT)

\* SearchHistoryRepository.create
NewHistory == [status |-> "pending", stores_found |-> 0, items_scraped |-> 0,
               opportunities_found |-> 0, error_message |-> None]

\* SearchHistoryRepository.update_status: status always, error_message and the
\* result counters only when given (results is the set of the dicts given: none or one).
update_status(history, id, status, error_message, results) ==
    IF id \notin 1..Len(history) THEN history
    ELSE LET h1 == [history[id] EXCEPT !.status = status]
             h2 == IF error_message # None THEN [h1 EXCEPT !.error_message = error_message]
                   ELSE h1
             h3 == IF results # {}
                   THEN LET r == CHOOSE r \in results : TRUE
                        IN  [h2 EXCEPT !.stores_found = r.stores_found,
                                       !.items_scraped = r.items_scraped,
                                       !.opportunities_found = r.opportunities_found]
                   ELSE h2
         IN  [history EXCEPT ![id] = h3]

(***************************************************************************)
(* The per-item steps of process_store_inventory, api.py:178-295.          *)
(***************************************************************************)
TOP_LISTINGS == 3

Top(listings) == SubSeq(listings, 1, Min(Len(listings), TOP_LISTINGS))

\* The listings check_and_save_prices saves, in the order of its two loops:
\* prices.items() is 'ebay' then 'amazon', listings[:3] of each.
ListingsToSave(results) == Top(results["ebay"]) \o Top(results["amazon"])

\* The inner loop of check_and_save_prices from position i on; bad holds the
\* positions whose create_or_update raises (caught per listing, and skipped).
RECURSIVE SaveListings(_, _, _, _, _)
SaveListings(sess, key, todo, i, bad) ==
    IF i > Len(todo) THEN sess
    ELSE SaveListings(IF i \in bad THEN sess
                      ELSE PriceComparisonRepository_create_or_update(sess, key, todo[i]),
                      key, todo, i + 1, bad)

\* check_and_save_prices: an exception of check_marketplace_prices is caught and
\* nothing is saved.
check_and_save_prices(sess, key, upc, product_name, engine_ok, outcomes, bad) ==
    LET prices == check_marketplace_prices(upc, product_name, engine_ok, outcomes)
    IN  IF prices.raised THEN sess
        ELSE SaveListings(sess, key, ListingsToSave(prices.results), 1, bad)

\* The None that get_best_price returns when the item has no row.
NoRow == [inventory_item_id |-> <<None, None>>, marketplace |-> None, total_price |-> 0,
          net_profit |-> NoNumber]

\* What get_best_price may return to calculate_and_save_opportunity.
BestChoices(sess, key) ==
    IF PriceComparisonRepository_get_best_price(sess, key) = {} THEN {NoRow}
    ELSE PriceComparisonRepository_get_best_price(sess, key)

\* An opportunity step that saves whatever the analysis says.
SaveGateOpen(analysis) == TRUE

\* api.py:279, if analysis.is_profitable:
SaveGate(analysis) == analysis.is_profitable

OpportunityRow(key, best, buy_price, analysis) ==
    [inventory_item_id |-> key, best_marketplace |-> best.marketplace,
     buy_price |-> buy_price, sell_price |-> best.total_price,
     net_profit |-> analysis.net_profit, is_valid |-> TRUE]

\* calculate_and_save_opportunity: best is the row get_best_price returned, fault
\* is "best_query" when that query raises, "opp_save" when the upsert of the
\* opportunity raises, "ok" otherwise; every exception is caught and printed.
calculate_and_save_opportunity(opps, key, buy_price, min_profit, min_margin, best, fault) ==
    IF fault = "best_query" \/ best = NoRow
    THEN [opps |-> opps, computed |-> FALSE, profitable |-> FALSE, upserted |-> FALSE]
    ELSE LET calculator == ProfitCalculator(NoNumber, NoNumber, min_profit, min_margin)
             analysis == calculate_profit(calculator, buy_price, best.total_price,
                                          best.marketplace)
         IN  IF analysis.raised
             THEN [opps |-> opps, computed |-> FALSE, profitable |-> FALSE,
                   upserted |-> FALSE]
             ELSE IF SaveGate(analysis) /\ fault # "opp_save"
             THEN [opps |-> OpportunityRepository_create_or_update(
                                opps, OpportunityRow(key, best, buy_price, analysis)),
                   computed |-> TRUE, profitable |-> analysis.is_profitable,
                   upserted |-> TRUE]
             ELSE [opps |-> opps, computed |-> TRUE,
                   profitable |-> analysis.is_profitable, upserted |-> FALSE]

(***************************************************************************)
(* The searches: start_search and run_full_search, api.py:309-405, with    *)
(* process_store_inventory, api.py:153-219.                                *)
(*                                                                         *)
(* The searches are asyncio tasks of one event loop: a task runs until     *)
(* its next await that suspends (find_stores, a store scrape, the gather   *)
(* of compare_prices) and no other task runs in between.  turn = s while   *)
(* search s holds the loop.  The database calls are synchronous; each may  *)
(* raise.                                                                  *)
(***************************************************************************)
Requests ==
    [retailers : {<<"walmart", "homedepot">>, <<"target", "homedepot">>},
     min_profit : {MIN_PROFIT_AMOUNT}, min_margin : {MIN_PROFIT_MARGIN}]

NoEv == [search |-> 0, key |-> <<None, None>>, has_upc |-> FALSE, compared |-> FALSE,
         computed |-> FALSE, profitable |-> FALSE, upserted |-> FALSE,
         committed |-> FALSE, fault |-> "ok", fresh |-> FALSE]

\* The rows a session has saved: those it has added and those it has overwritten.
SavedRows(sess) ==
    {sess.added[i] : i \in 1..Len(sess.added)}
    \cup {sess.rows[i] : i \in {j \in 1..Len(sess.rows) : sess.rows[j] # db.comparisons[j]}}

NewObs == [orchFault |-> FALSE, located |-> FALSE, locFailed |-> {},
           storesRun |-> 0, itemsSeen |-> 0, itemsTried |-> 0, itemsDone |-> 0,
           isolated |-> {}, tallied |-> FALSE]

Ids == 1..Len(task)

\* The state of the other call models stays as it is.
CallsUnchanged == UNCHANGED <<lc, sc, cp, sv, pf, pr, rt, ty>>

\* The except clause of run_full_search (lines 398-405): status and error are
\* set, then update_status('failed', error_message=...) runs, and may itself
\* raise.  orch tells whether the exception arose in run_full_search's own calls.
Failed(s, states, ob, msg, orch) ==
    /\ active_searches' = [states EXCEPT ![s].status = "failed", ![s].error = msg]
    /\ \E persist_ok \in BOOLEAN :
          db' = [db EXCEPT !.history =
                    IF persist_ok THEN update_status(@, s, "failed", msg, {}) ELSE @]
    /\ task' = [task EXCEPT ![s].pc = "done"]
    /\ obs' = [ob EXCEPT ![s].orchFault = @ \/ orch]
    /\ turn' = 0
    /\ ev' = NoEv

\* start_search: the history row, the search state, the background task.  (When
\* the creation of the history row raises, the request fails and nothing changes.)
start_search(req) ==
    /\ turn = 0
    /\ Len(task) < MaxSearches
    /\ db' = [db EXCEPT !.history = Append(@, NewHistory)]
    /\ active_searches' = Append(active_searches,
           [status |-> "running", stores_found |-> 0, items_scraped |-> 0,
            opportunities_found |-> 0, error |-> None])
    /\ task' = Append(task, [pc |-> "queued", request |-> req, stores |-> <<>>,
                             si |-> 0, items |-> <<>>, ii |-> 0])
    /\ obs' = Append(obs, NewObs)
    /\ turn' = 0
    /\ ev' = NoEv
    /\ CallsUnchanged

\* run_full_search, lines 355-363: status 'running', update_status('running'),
\* then the await of find_stores.
RunBegin(s) ==
    /\ turn = 0
    /\ task[s].pc = "queued"
    /\ \E ok \in BOOLEAN :
          IF ok
          THEN /\ active_searches' = [active_searches EXCEPT ![s].status = "running"]
               /\ db' = [db EXCEPT !.history = update_status(@, s, "running", None, {})]
               /\ task' = [task EXCEPT ![s].pc = "locate"]
               /\ UNCHANGED <<obs, turn>>
               /\ ev' = NoEv
          ELSE Failed(s, active_searches, obs, "database error", TRUE)
    /\ CallsUnchanged

\* stores_to_process of lines 365-368.
RECURSIVE StoresToProcess(_, _)
StoresToProcess(retailers, all_stores) ==
    IF retailers = <<>> THEN <<>>
    ELSE (IF Head(retailers) \in DOMAIN all_stores THEN all_stores[Head(retailers)]
          ELSE <<>>) \o StoresToProcess(Tail(retailers), all_stores)

\* run_full_search, lines 363-370: find_stores returns, the stores of the requested
\* retailers are collected and counted.
FindStoresReturn(s) ==
    /\ turn = 0
    /\ task[s].pc = "locate"
    /\ \E pages \in [Retailers -> LocatorPages(MaxStores)] :
          LET found == find_stores(pages)
              todo == StoresToProcess(task[s].request.retailers, found.stores)
          IN  IF found.raised
              THEN Failed(s, active_searches, obs, "locator error", TRUE)
              ELSE /\ active_searches' =
                          [active_searches EXCEPT ![s].stores_found = Len(todo)]
                   /\ task' = [task EXCEPT ![s].pc = "store", ![s].stores = todo,
                                           ![s].si = 1]
                   /\ obs' = [obs EXCEPT ![s].located = TRUE,
                                         ![s].locFailed =
                                             {r \in Retailers : LocatorFailed(pages[r])}]
                   /\ turn' = s
                   /\ ev' = NoEv
                   /\ UNCHANGED db
    /\ CallsUnchanged

\* A store loop that leaves out the last store.
MoreStoresButLast(t) == t.si < Len(t.stores)

\* for store in stores_to_process (line 373)
MoreStores(t) == t.si <= Len(t.stores)

\* process_store_inventory, lines 160-169: up to the await of the store scrape.
ProcessStoreBegin(s) ==
    /\ turn = s
    /\ task[s].pc = "store"
    /\ MoreStores(task[s])
    /\ IF task[s].stores[task[s].si].retailer \in Retailers
       THEN /\ task' = [task EXCEPT ![s].pc = "scrape"]
            /\ turn' = 0
            /\ UNCHANGED obs
       ELSE /\ task' = [task EXCEPT ![s].si = @ + 1]
            /\ obs' = [obs EXCEPT ![s].storesRun = @ + 1]
            /\ UNCHANGED turn
    /\ ev' = NoEv
    /\ UNCHANGED <<active_searches, db>>
    /\ CallsUnchanged

\* A process_store_inventory without its outer except clause.
OuterExceptMissing(raised) == raised

\* process_store_inventory, lines 218-219: except Exception: print.  Tells whether
\* an exception raised in the body leaves the function.
OuterExcept(raised) == FALSE

\* An item loop whose except clause re-raises.
InnerExceptReraises(raised) == raised

\* process_store_inventory, lines 214-216: except Exception: print; continue.  Tells
\* whether an exception raised while an item is processed leaves the loop.
InnerExcept(raised) == FALSE

\* The end of process_store_inventory for the current store, normally or through
\* its except clause: the loop of run_full_search goes on to the next store.
StoreEnds(s, states, ob, why) ==
    /\ active_searches' = states
    /\ task' = [task EXCEPT ![s].pc = "store", ![s].si = @ + 1,
                            ![s].items = <<>>, ![s].ii = 0]
    /\ obs' = [ob EXCEPT ![s].storesRun = @ + 1, ![s].isolated = @ \cup why]
    /\ turn' = s

\* process_store_inventory, lines 166-177: the scrape returns or raises, the store
\* is saved, the item loop starts.
ScrapeReturn(s) ==
    /\ turn = 0
    /\ task[s].pc = "scrape"
    /\ \E site \in Sites(MaxItems), save_ok \in BOOLEAN :
          LET store == task[s].stores[task[s].si]
              got == IF store.retailer = "walmart" THEN scrape_walmart_store(site)
                     ELSE scrape_homedepot_store(site)
          IN  IF got.raised \/ ~save_ok
              THEN /\ got.raised => save_ok
                   /\ IF OuterExcept(TRUE)
                      THEN Failed(s, active_searches, obs, "store error", FALSE)
                      ELSE /\ StoreEnds(s, active_searches, obs,
                                        IF got.raised THEN {"scrape"} ELSE {"store save"})
                           /\ UNCHANGED db
                           /\ ev' = NoEv
              ELSE /\ db' = [db EXCEPT !.stores =
                                StoreRepository_create_or_update(@, store)]
                   /\ task' = [task EXCEPT ![s].pc = "item", ![s].items = got.items,
                                           ![s].ii = 1]
                   /\ obs' = [obs EXCEPT ![s].itemsSeen = @ + Len(got.items)]
                   /\ turn' = s
                   /\ ev' = NoEv
                   /\ UNCHANGED active_searches
    /\ CallsUnchanged

\* The item loop goes on to the next item.
NextItem(s, states, ob) ==
    /\ active_searches' = states
    /\ task' = [task EXCEPT ![s].pc = "item", ![s].ii = @ + 1]
    /\ obs' = ob
    /\ turn' = s

\* An exception raised while the current item is processed, the session rolled back.
ItemRaised(s, states, ob) ==
    IF InnerExcept(TRUE)
    THEN IF OuterExcept(TRUE)
         THEN Failed(s, states, ob, "item error", FALSE)
         ELSE StoreEnds(s, states, ob, {"item"}) /\ UNCHANGED db
    ELSE /\ NextItem(s, states, [ob EXCEPT ![s].isolated = @ \cup {"item"}])
         /\ UNCHANGED db

\* The queries of a comparison that is never gathered.
NoOutcomes == [m \in Marketplaces |-> [kind |-> "failed", listings |-> <<>>]]

CurrentKey(t) == ItemKey(t.stores[t.si].store_id, t.items[t.ii])

\* An item count that goes down.
ItemCountedDown(states, s) == [states EXCEPT ![s].items_scraped = @ - 1]

\* api.py:212, active_searches[search_id]['items_scraped'] += 1: no await lies
\* between the read and the write.
ItemCounted(states, s) == [states EXCEPT ![s].items_scraped = @ + 1]

\* process_store_inventory, lines 205-212 and the commit that ends the with block:
\* the opportunity step, items_scraped += 1, session.commit().  sess holds the
\* price comparisons of the session, compared tells whether check_and_save_prices ran.
FinishItem(s, sess, compared, ob) ==
    LET t == task[s]
        item == t.items[t.ii]
        key == CurrentKey(t)
        counted == ItemCounted(active_searches, s)
    IN  \E best \in BestChoices(sess, key), fault \in {"ok", "best_query", "opp_save"},
           commit_ok \in BOOLEAN :
           LET done == calculate_and_save_opportunity(
                           db.opportunities, key, item.current_price,
                           t.request.min_profit, t.request.min_margin, best, fault)
           IN  /\ best = NoRow => fault = "ok"
               /\ ev' = [search |-> s, key |-> key, has_upc |-> item.upc # None,
                         compared |-> compared, computed |-> done.computed,
                         profitable |-> done.profitable, upserted |-> done.upserted,
                         committed |-> commit_ok, fault |-> fault,
                         fresh |->
                             /\ SavedRows(sess) # {}
                             /\ \A r \in SavedRows(sess) :
                                   calculate_profit(
                                       ProfitCalculator(NoNumber, NoNumber,
                                                        t.request.min_profit,
                                                        t.request.min_margin),
                                       item.current_price, r.total_price,
                                       r.marketplace).is_profitable]
               /\ IF commit_ok
                  THEN /\ db' = [db EXCEPT
                                   !.items = InventoryRepository_create_or_update(
                                                 @, t.stores[t.si].store_id, item),
                                   !.comparisons = sess.rows \o sess.added,
                                   !.opportunities = done.opps]
                       /\ NextItem(s, counted, [ob EXCEPT ![s].itemsDone = @ + 1])
                  ELSE ItemRaised(s, counted, ob)

\* process_store_inventory, lines 178-203: the item is upserted and flushed; with a
\* upc, check_and_save_prices runs up to the gather of compare_prices.
ItemStep(s) ==
    /\ turn = s
    /\ task[s].pc = "item"
    /\ task[s].ii <= Len(task[s].items)
    /\ LET item == task[s].items[task[s].ii]
           tried == [obs EXCEPT ![s].itemsTried = @ + 1]
           sess == [rows |-> db.comparisons, added |-> <<>>]
       IN  \E flush_ok \in BOOLEAN, engine_ok \in BOOLEAN :
              IF ~flush_ok \/ FlushRaises(db.items, task[s].stores[task[s].si].store_id, item)
              THEN /\ engine_ok
                   /\ ItemRaised(s, active_searches, tried)
                   /\ ev' = NoEv
              ELSE IF item.upc # None /\ engine_ok
              THEN /\ task' = [task EXCEPT ![s].pc = "price"]
                   /\ obs' = tried
                   /\ turn' = 0
                   /\ ev' = NoEv
                   /\ UNCHANGED <<active_searches, db>>
              ELSE /\ item.upc = None => engine_ok
                   /\ FinishItem(s, IF item.upc # None
                                    THEN check_and_save_prices(
                                             sess, CurrentKey(task[s]), item.upc, "name",
                                             engine_ok, NoOutcomes, {})
                                    ELSE sess,
                                 item.upc # None, tried)
    /\ CallsUnchanged

\* check_and_save_prices, lines 230-252, once the marketplace queries are done, and
\* the rest of the item's processing.
PriceReturn(s) ==
    /\ turn = 0
    /\ task[s].pc = "price"
    /\ LET item == task[s].items[task[s].ii]
           sess == [rows |-> db.comparisons, added |-> <<>>]
       IN  \E outcomes \in QueryOutcomes(MaxListings) :
              \E bad \in SUBSET (1..Len(ListingsToSave(
                                   compare_prices(item.upc, "name", outcomes).results))) :
                 FinishItem(s, check_and_save_prices(sess, CurrentKey(task[s]), item.upc,
                                                     "name", TRUE, outcomes, bad),
                            TRUE, obs)
    /\ CallsUnchanged

\* The item loop of process_store_inventory is over: the function returns.
ItemsEnd(s) ==
    /\ turn = s
    /\ task[s].pc = "item"
    /\ task[s].ii > Len(task[s].items)
    /\ StoreEnds(s, active_searches, obs, {})
    /\ ev' = NoEv
    /\ UNCHANGED db
    /\ CallsUnchanged

\* run_full_search, lines 378-386: the opportunities are counted and the status
\* becomes 'completed'.
TallyAndComplete(s) ==
    /\ turn = s
    /\ task[s].pc = "store"
    /\ ~MoreStores(task[s])
    /\ \E ok \in BOOLEAN :
          IF ok
          THEN /\ active_searches' =
                      [active_searches EXCEPT
                          ![s].opportunities_found =
                              get_high_opportunities(db.opportunities,
                                                     task[s].request.min_profit),
                          ![s].status = "completed"]
               /\ task' = [task EXCEPT ![s].pc = "persist"]
               /\ obs' = [obs EXCEPT ![s].tallied = TRUE]
               /\ ev' = NoEv
               /\ UNCHANGED <<db, turn>>
          ELSE Failed(s, active_searches, obs, "database error", TRUE)
    /\ CallsUnchanged

\* run_full_search, lines 388-396: update_status('completed', results=...); when it
\* raises, the except clause of lines 398-405 runs.
PersistCompleted(s) ==
    /\ turn = s
    /\ task[s].pc = "persist"
    /\ \E ok \in BOOLEAN :
          IF ok
          THEN /\ db' = [db EXCEPT !.history =
                            update_status(@, s, "completed", None,
                                {[stores_found |-> active_searches[s].stores_found,
                                  items_scraped |-> active_searches[s].items_scraped,
                                  opportunities_found |->
                                      active_searches[s].opportunities_found]})]
               /\ task' = [task EXCEPT ![s].pc = "done"]
               /\ turn' = 0
               /\ ev' = NoEv
               /\ UNCHANGED <<active_searches, obs>>
          ELSE Failed(s, active_searches, obs, "database error", TRUE)
    /\ CallsUnchanged

(***************************************************************************)
(* find_stores on its own, scraper_module.py:788-796: the two locators     *)
(* are awaited one after the other.                                        *)
(***************************************************************************)
Idle == [pc |-> "idle"]

LocateWalmart ==
    /\ lc.pc = "call"
    /\ LET w == find_walmart_stores(lc.pages["walmart"])
       IN  lc' = IF w.raised THEN [lc EXCEPT !.pc = "raised"]
                 ELSE [lc EXCEPT !.pc = "walmart done", !.walmart = w.stores]
    /\ UNCHANGED <<active_searches, db, task, turn, obs, ev, sc, cp, sv, pf, pr, rt, ty>>

LocateHomeDepot ==
    /\ lc.pc = "walmart done"
    /\ LET h == find_homedepot_stores(lc.pages["homedepot"])
       IN  lc' = IF h.raised THEN [lc EXCEPT !.pc = "raised"]
                 ELSE [lc EXCEPT !.pc = "returned",
                                 !.result = find_stores(lc.pages).stores]
    /\ UNCHANGED <<active_searches, db, task, turn, obs, ev, sc, cp, sv, pf, pr, rt, ty>>

(***************************************************************************)
(* A store scrape on its own, scraper_module.py:772-785: __aenter__, the   *)
(* two passes, __aexit__.                                                  *)
(***************************************************************************)
ScrapeEnter ==
    /\ sc.pc = "call"
    /\ sc' = IF sc.site.startup = "fail" THEN [sc EXCEPT !.pc = "raised"]
             ELSE [sc EXCEPT !.pc = "first"]
    /\ UNCHANGED <<active_searches, db, task, turn, obs, ev, lc, cp, sv, pf, pr, rt, ty>>

ScrapeFirstPass ==
    /\ sc.pc = "first"
    /\ LET a == search_pass(sc.site.first)
       IN  sc' = IF a.raised THEN [sc EXCEPT !.pc = "raised"]
                 ELSE [sc EXCEPT !.pc = "second", !.first_items = a.items]
    /\ UNCHANGED <<active_searches, db, task, turn, obs, ev, lc, cp, sv, pf, pr, rt, ty>>

ScrapeSecondPass ==
    /\ sc.pc = "second"
    /\ LET b == search_pass(sc.site.second)
       IN  sc' = IF b.raised THEN [sc EXCEPT !.pc = "raised"]
                 ELSE [sc EXCEPT !.pc = "exit", !.second_items = b.items]
    /\ UNCHANGED <<active_searches, db, task, turn, obs, ev, lc, cp, sv, pf, pr, rt, ty>>

ScrapeExit ==
    /\ sc.pc = "exit"
    /\ LET got == IF sc.retailer = "walmart" THEN scrape_walmart_store(sc.site)
                  ELSE scrape_homedepot_store(sc.site)
       IN  sc' = IF got.raised THEN [sc EXCEPT !.pc = "raised"]
                 ELSE [sc EXCEPT !.pc = "returned", !.result = got.items]
    /\ UNCHANGED <<active_searches, db, task, turn, obs, ev, lc, cp, sv, pf, pr, rt, ty>>

(***************************************************************************)
(* compare_prices on its own, market_checker.py:466-505: the queries are   *)
(* dispatched together, finish in any order, and are gathered.             *)
(***************************************************************************)
CompareDispatch ==
    /\ cp.pc = "call"
    /\ cp' = IF cp.upc = None /\ cp.product_name = None
             THEN [cp EXCEPT !.pc = "returned",
                             !.result = compare_prices(cp.upc, cp.product_name,
                                                       cp.outcomes).results]
             ELSE [cp EXCEPT !.pc = "gather", !.pending = Marketplaces,
                             !.results_list = [i \in 1..Len(Tasks) |-> NotDone]]
    /\ UNCHANGED <<active_searches, db, task, turn, obs, ev, lc, sc, sv, pf, pr, rt, ty>>

QueryFinish(m) ==
    /\ cp.pc = "gather"
    /\ m \in cp.pending
    /\ cp' = [cp EXCEPT !.pending = @ \ {m}, !.order = Append(@, m),
                        !.results_list[CHOOSE k \in 1..Len(Tasks) : Tasks[k] = m] =
                            Gathered(cp.outcomes[m])]
    /\ UNCHANGED <<active_searches, db, task, turn, obs, ev, lc, sc, sv, pf, pr, rt, ty>>

CompareGather ==
    /\ cp.pc = "gather"
    /\ AllDone(cp.pending)
    /\ LET got == compare_prices(cp.upc, cp.product_name, cp.outcomes)
       IN  cp' = IF got.raised THEN [cp EXCEPT !.pc = "raised"]
                 ELSE [cp EXCEPT !.pc = "returned",
                                 !.result = ZipResults(cp.results_list)]
    /\ UNCHANGED <<active_searches, db, task, turn, obs, ev, lc, sc, sv, pf, pr, rt, ty>>

\* get_best_price, market_checker.py:513-525, once its compare_prices has returned.
GetBestPrice ==
    /\ cp.pc = "returned"
    /\ cp' = [cp EXCEPT !.pc = "best", !.best = get_best_price(cp.result)]
    /\ UNCHANGED <<active_searches, db, task, turn, obs, ev, lc, sc, sv, pf, pr, rt, ty>>

(***************************************************************************)
(* check_and_save_prices on its own, api.py:222-252, each call in a        *)
(* session of its own that get_db_session commits (database.py:184-195):   *)
(* the rows the session has added reach the table at the commit.  As in    *)
(* process_store_inventory (api.py:201-209), the call is made for an item  *)
(* with a upc, and calculate_and_save_opportunity follows it in the same   *)
(* session, or runs alone for an item without a upc.                       *)
(***************************************************************************)
SaveKeys == {<<st, p>> : st \in {"s1"}, p \in {"p1", "p2"}}

SaveCall ==
    /\ sv.pc = "ready"
    /\ sv.calls < MaxCalls
    /\ \E key \in SaveKeys, engine_ok \in BOOLEAN, outcomes \in QueryOutcomes(MaxQueryListings) :
          \E bad \in SUBSET (1..Len(ListingsToSave(
                               compare_prices("u1", "name", outcomes).results))) :
             sv' = [sv EXCEPT
                      !.pc = "saved",
                      !.calls = @ + 1,
                      !.key = key,
                      !.sess = check_and_save_prices([rows |-> sv.rows, added |-> <<>>], key,
                                                     "u1", "name", engine_ok, outcomes, bad)]
    /\ UNCHANGED <<active_searches, db, task, turn, obs, ev, lc, sc, cp, pf, pr, rt, ty>>

\* calculate_and_save_opportunity after check_and_save_prices (pc "saved"), or
\* for an item without a upc (pc "ready", the session holds the committed rows).
OpportunityStep ==
    /\ sv.pc \in {"ready", "saved"}
    /\ sv.pc = "ready" => sv.calls < MaxCalls
    /\ \E key \in SaveKeys, buy_price \in BuyPrices, fault \in {"ok", "best_query", "opp_save"} :
          LET sess == IF sv.pc = "saved" THEN sv.sess ELSE [rows |-> sv.rows, added |-> <<>>]
          IN  \E best \in BestChoices(sess, key) :
                 /\ sv.pc = "saved" => key = sv.key
                 /\ best = NoRow => fault = "ok"
                 /\ sv' = [sv EXCEPT
                             !.pc = "analysed",
                             !.calls = IF sv.pc = "ready" THEN @ + 1 ELSE @,
                             !.key = key,
                             !.sess = sess,
                             !.selected = best,
                             !.done = calculate_and_save_opportunity(
                                          sv.opps, key, buy_price, MIN_PROFIT_AMOUNT,
                                          MIN_PROFIT_MARGIN, best, fault)]
    /\ UNCHANGED <<active_searches, db, task, turn, obs, ev, lc, sc, cp, pf, pr, rt, ty>>

SaveCommit ==
    /\ sv.pc = "analysed"
    /\ sv' = [sv EXCEPT !.pc = "ready", !.rows = sv.sess.rows \o sv.sess.added,
                        !.opps = sv.done.opps]
    /\ UNCHANGED <<active_searches, db, task, turn, obs, ev, lc, sc, cp, pf, pr, rt, ty>>

(***************************************************************************)
(* The ProfitCalculator on its own, profit_calculator.py:53-278: it is     *)
(* constructed from the options the caller supplies (NoNumber: not         *)
(* supplied), then calculate_profit or find_best_marketplace is called.    *)
(***************************************************************************)
SuppliedOptions ==
    [sales_tax_rate : {NoNumber, 0, 6}, shipping_cost : {NoNumber, 0},
     min_profit_amount : {NoNumber, 0, 1000}, min_profit_margin : {NoNumber, 0, 30}]

BuyInputs == {0, 1000, 1884}
SellInputs == {0, 1000, 1100, 2500, 4001}
AmazonInputs == {NoNumber, 0, 1200}

Construct ==
    /\ pf.pc = "new"
    /\ pf' = [pf EXCEPT
                !.pc = "ready",
                !.calc = ProfitCalculator(pf.supplied.sales_tax_rate, pf.supplied.shipping_cost,
                                          pf.supplied.min_profit_amount,
                                          pf.supplied.min_profit_margin)]
    /\ UNCHANGED <<active_searches, db, task, turn, obs, ev, lc, sc, cp, sv, pr, rt, ty>>

CalculateProfit ==
    /\ pf.pc = "ready"
    /\ \E marketplace \in MarketplaceTags, category \in Categories :
          LET analysis == calculate_profit_in(pf.calc, pf.buy_price, pf.sell_price,
                                              marketplace, category)
          IN  pf' = [pf EXCEPT !.pc = IF analysis.raised THEN "raised" ELSE "analysed",
                               !.marketplace = marketplace,
                               !.category = category,
                               !.analysis = analysis]
    /\ UNCHANGED <<active_searches, db, task, turn, obs, ev, lc, sc, cp, sv, pr, rt, ty>>

FindBest ==
    /\ pf.pc = "ready"
    /\ \E amazon_price \in AmazonInputs, ebay_price \in {NoNumber, pf.sell_price},
          category \in Categories :
          LET found == find_best_marketplace(pf.calc, pf.buy_price, amazon_price,
                                             ebay_price, category)
          IN  pf' = [pf EXCEPT !.pc = IF found.raised THEN "best raised" ELSE "best",
                               !.amazon_price = amazon_price,
                               !.ebay_price = ebay_price,
                               !.category = category,
                               !.best = found.best]
    /\ UNCHANGED <<active_searches, db, task, turn, obs, ev, lc, sc, cp, sv, pr, rt, ty>>

(***************************************************************************)
(* The parsing of one product on its own.                                  *)
(***************************************************************************)
ParseProduct ==
    /\ pr.pc = "call"
    /\ pr.product.path = "json"
    /\ pr' = [pr EXCEPT !.pc = "returned",
                        !.items = IF pr.product.retailer = "walmart"
                                  THEN parse_walmart_product(pr.product)
                                  ELSE parse_homedepot_product(pr.product)]
    /\ UNCHANGED <<active_searches, db, task, turn, obs, ev, lc, sc, cp, sv, pf, rt, ty>>

ParseElement ==
    /\ pr.pc = "call"
    /\ pr.product.path = "dom"
    /\ pr' = [pr EXCEPT !.pc = "returned",
                        !.items = IF pr.product.retailer = "walmart"
                                  THEN parse_walmart_html_element(pr.product)
                                  ELSE parse_homedepot_html_element(pr.product)]
    /\ UNCHANGED <<active_searches, db, task, turn, obs, ev, lc, sc, cp, sv, pf, rt, ty>>

(***************************************************************************)
(* retry_with_backoff on its own, utils.py:217-238.  The k-th call of func *)
(* returns the value k ("ok"), raises an exception the exceptions tuple    *)
(* matches ("fail") or raises one it does not match ("other"); the         *)
(* exception of the k-th call is named k.  waits holds the delays slept.   *)
(***************************************************************************)
AttemptOutcomes == {"ok", "fail", "other"}

\* attempt == max_retries, a test that the loop never satisfies.
IsPastLastAttempt(attempt, max_retries) == attempt = max_retries

\* if attempt == max_retries - 1: raise
IsLastAttempt(attempt, max_retries) == attempt = max_retries - 1

\* try: return func() except exceptions: ..., for attempt in range(max_retries)
RetryAttempt ==
    /\ rt.pc = "loop"
    /\ rt.attempt < rt.max_retries
    /\ LET outcome == rt.outcomes[rt.attempt + 1]
           called == [rt EXCEPT !.calls = @ + 1]
       IN  rt' = IF outcome = "ok"
                 THEN [called EXCEPT !.pc = "returned", !.result = rt.attempt + 1]
                 ELSE IF outcome = "other" \/ IsLastAttempt(rt.attempt, rt.max_retries)
                 THEN [called EXCEPT !.pc = "raised", !.exception = rt.attempt + 1]
                 ELSE [called EXCEPT !.pc = "sleep"]
    /\ UNCHANGED <<active_searches, db, task, turn, obs, ev, lc, sc, cp, sv, pf, pr, ty>>

\* time.sleep(delay); delay *= backoff_factor; and the next round of the loop
RetrySleep ==
    /\ rt.pc = "sleep"
    /\ rt' = [rt EXCEPT !.pc = "loop", !.waits = Append(@, rt.delay),
                        !.delay = @ * rt.backoff_factor, !.attempt = @ + 1]
    /\ UNCHANGED <<active_searches, db, task, turn, obs, ev, lc, sc, cp, sv, pf, pr, ty>>

\* The loop is over without a return or a raise: return None (result 0 here).
RetryLoopEnds ==
    /\ rt.pc = "loop"
    /\ rt.attempt >= rt.max_retries
    /\ rt' = [rt EXCEPT !.pc = "returned", !.result = 0]
    /\ UNCHANGED <<active_searches, db, task, turn, obs, ev, lc, sc, cp, sv, pf, pr, ty>>

(***************************************************************************)
(* The end of run_full_search on its own, api.py:378-386: the search has   *)
(* emitted the opportunities ty.emitted for its items, and the table also  *)
(* holds what earlier searches left in it.                                 *)
(***************************************************************************)
TallyRow(key, net_profit, is_valid) ==
    [inventory_item_id |-> key, best_marketplace |-> "ebay", buy_price |-> 1000,
     sell_price |-> 3000, net_profit |-> net_profit, is_valid |-> is_valid]

\* The opportunities the search can have emitted for its items: their net_profit
\* has passed the gate of calculate_and_save_opportunity for every min_profit of
\* TallyInit.
OwnRows ==
    {TallyRow(<<"s1", p>>, 1500, TRUE) : p \in {"p1", "p2"}}

\* The opportunities earlier searches can have left for other items, some of them
\* invalidated since.
LeftRows ==
    {TallyRow(<<"s2", p>>, n, v) : p \in {"p1", "p2"}, n \in {600, 1500}, v \in BOOLEAN}

\* api.py:379-383
CountOpportunities ==
    /\ ty.pc = "count"
    /\ ty' = [ty EXCEPT !.pc = "counted",
                        !.opportunities_found =
                            get_high_opportunities(ty.opps, ty.min_profit)]
    /\ UNCHANGED <<active_searches, db, task, turn, obs, ev, lc, sc, cp, sv, pf, pr, rt>>

\* api.py:386
MarkCompleted ==
    /\ ty.pc = "counted"
    /\ ty' = [ty EXCEPT !.pc = "done", !.status = "completed"]
    /\ UNCHANGED <<active_searches, db, task, turn, obs, ev, lc, sc, cp, sv, pf, pr, rt>>

(***************************************************************************)
(* The specifications.                                                     *)
(***************************************************************************)
EmptyDb == [stores |-> {}, items |-> {}, comparisons |-> <<>>, opportunities |-> {},
            history |-> <<>>]

NoSearches ==
    /\ active_searches = <<>>
    /\ db = EmptyDb
    /\ task = <<>>
    /\ obs = <<>>
    /\ turn = 0
    /\ ev = NoEv

Init == NoSearches /\ lc = Idle /\ sc = Idle /\ cp = Idle /\ sv = Idle /\ pf = Idle /\ pr = Idle /\ rt = Idle /\ ty = Idle

\* A step of search s.
SearchStep(s) ==
    \/ RunBegin(s)
    \/ FindStoresReturn(s)
    \/ ProcessStoreBegin(s)
    \/ ScrapeReturn(s)
    \/ ItemStep(s)
    \/ PriceReturn(s)
    \/ ItemsEnd(s)
    \/ TallyAndComplete(s)
    \/ PersistCompleted(s)

Next ==
    \/ \E req \in Requests : start_search(req)
    \/ \E s \in Ids : RunBegin(s)
    \/ \E s \in Ids : FindStoresReturn(s)
    \/ \E s \in Ids : ProcessStoreBegin(s)
    \/ \E s \in Ids : ScrapeReturn(s)
    \/ \E s \in Ids : ItemStep(s)
    \/ \E s \in Ids : PriceReturn(s)
    \/ \E s \in Ids : ItemsEnd(s)
    \/ \E s \in Ids : TallyAndComplete(s)
    \/ \E s \in Ids : PersistCompleted(s)

Spec == Init /\ [][Next]_vars

\* The event loop runs every task that can run, and every external call returns
\* or raises: no search that can take a step waits forever.
FairSpec == Spec /\ \A s \in 1..MaxSearches : WF_vars(s \in Ids /\ SearchStep(s))

LocateInit ==
    /\ NoSearches /\ sc = Idle /\ cp = Idle /\ sv = Idle /\ pf = Idle /\ pr = Idle /\ rt = Idle /\ ty = Idle
    /\ lc \in {[pc |-> "call", pages |-> p, walmart |-> <<>>, result |-> None] :
                  p \in [Retailers -> LocatorPages(MaxEntries)]}

LocateNext == LocateWalmart \/ LocateHomeDepot

LocateSpec == LocateInit /\ [][LocateNext]_vars

ScrapeInit ==
    /\ NoSearches /\ lc = Idle /\ cp = Idle /\ sv = Idle /\ pf = Idle /\ pr = Idle /\ rt = Idle /\ ty = Idle
    /\ sc \in {[pc |-> "call", retailer |-> r, site |-> w, first_items |-> <<>>,
                second_items |-> <<>>, result |-> None] :
                  r \in Retailers, w \in Sites(MaxItems)}

ScrapeNext == ScrapeEnter \/ ScrapeFirstPass \/ ScrapeSecondPass \/ ScrapeExit

ScrapeSpec == ScrapeInit /\ [][ScrapeNext]_vars

CompareInit ==
    /\ NoSearches /\ lc = Idle /\ sc = Idle /\ sv = Idle /\ pf = Idle /\ pr = Idle /\ rt = Idle /\ ty = Idle
    /\ cp \in {[pc |-> "call", upc |-> u, product_name |-> n, outcomes |-> q,
                pending |-> {}, order |-> <<>>, results_list |-> <<>>, result |-> None,
                best |-> {}] :
                  u \in Upcs \cup {None}, n \in {"name", None},
                  q \in QueryOutcomes(MaxQueryListings)}

CompareNext ==
    \/ CompareDispatch
    \/ \E m \in Marketplaces : QueryFinish(m)
    \/ CompareGather
    \/ GetBestPrice

CompareSpec == CompareInit /\ [][CompareNext]_vars

SaveInit ==
    /\ NoSearches /\ lc = Idle /\ sc = Idle /\ cp = Idle /\ pf = Idle /\ pr = Idle /\ rt = Idle /\ ty = Idle
    /\ sv = [pc |-> "ready", calls |-> 0, key |-> <<None, None>>, rows |-> <<>>,
             sess |-> [rows |-> <<>>, added |-> <<>>], opps |-> {}, selected |-> NoRow,
             done |-> [opps |-> {}, computed |-> FALSE, profitable |-> FALSE,
                       upserted |-> FALSE]]

SaveNext == SaveCall \/ OpportunityStep \/ SaveCommit

SaveSpec == SaveInit /\ [][SaveNext]_vars

ProfitInit ==
    /\ NoSearches /\ lc = Idle /\ sc = Idle /\ cp = Idle /\ sv = Idle /\ pr = Idle /\ rt = Idle /\ ty = Idle
    /\ pf \in {[pc |-> "new", supplied |-> o, buy_price |-> b, sell_price |-> p,
                calc |-> None, marketplace |-> None, category |-> None,
                amazon_price |-> NoNumber, ebay_price |-> NoNumber,
                analysis |-> None, best |-> {}] :
                  o \in SuppliedOptions, b \in BuyInputs, p \in SellInputs}

ProfitNext == Construct \/ CalculateProfit \/ FindBest

ProfitSpec == ProfitInit /\ [][ProfitNext]_vars

ParseInit ==
    /\ NoSearches /\ lc = Idle /\ sc = Idle /\ cp = Idle /\ sv = Idle /\ pf = Idle /\ rt = Idle /\ ty = Idle
    /\ pr \in {[pc |-> "call", product |-> p, items |-> {}] : p \in PageProducts}

ParseNext == ParseProduct \/ ParseElement

ParseSpec == ParseInit /\ [][ParseNext]_vars

RetryInit ==
    /\ NoSearches /\ lc = Idle /\ sc = Idle /\ cp = Idle /\ sv = Idle /\ pf = Idle /\ ty = Idle
    /\ pr = Idle
    /\ rt \in {[pc |-> "loop", max_retries |-> n, initial_delay |-> d,
                backoff_factor |-> f, outcomes |-> o, attempt |-> 0, delay |-> d,
                calls |-> 0, waits |-> <<>>, result |-> 0, exception |-> 0] :
                  n \in 0..MaxRetries, d \in {1, 2}, f \in {1, 2, 3},
                  o \in [1..MaxRetries -> AttemptOutcomes]}

RetryNext == RetryAttempt \/ RetrySleep \/ RetryLoopEnds

RetrySpec == RetryInit /\ [][RetryNext]_vars

TallyInit ==
    /\ NoSearches /\ lc = Idle /\ sc = Idle /\ cp = Idle /\ sv = Idle /\ pf = Idle
    /\ pr = Idle /\ rt = Idle
    /\ ty \in {[pc |-> "count", status |-> "running", min_profit |-> m, emitted |-> e,
                opps |-> e \cup l, opportunities_found |-> 0] :
                  m \in {0, MIN_PROFIT_AMOUNT, 1000}, e \in SUBSET OwnRows,
                  l \in {x \in SUBSET LeftRows :
                            \A a \in x, b \in x :
                               a.inventory_item_id = b.inventory_item_id => a = b}}

TallyNext == CountOpportunities \/ MarkCompleted

TallySpec == TallyInit /\ [][TallyNext]_vars

(***************************************************************************)
(* Properties.                                                             *)
(***************************************************************************)

\* C1: a failure while one store is located, scraped or persisted, or while one
\* item is persisted or analysed, does not keep the remaining stores and items from
\* being processed: no search fails because of it, and when the store loop is over
\* every store of the search has been processed and every item of a scraped and
\* saved store has been taken up.
C1_FailuresAreIsolated ==
    \A s \in Ids :
       /\ active_searches[s].status = "failed" => obs[s].orchFault
       /\ obs[s].tallied =>
             /\ obs[s].storesRun = Len(task[s].stores)
             /\ obs[s].itemsTried = obs[s].itemsSeen

\* An item is committed after the scrape of an earlier store raised and an earlier
\* item raised, and after one of the locators failed.
C1_Witness ==
    \E s \in Ids :
       /\ ev.search = s /\ ev.committed
       /\ {"scrape", "item"} \subseteq obs[s].isolated
       /\ obs[s].locFailed # {}

\* C2: a search that is completed or failed keeps that status, whatever a later
\* persistence step does.
C2_TerminalStaysTerminal ==
    [][\A s \in Ids :
          active_searches[s].status \in {"completed", "failed"} =>
              active_searches'[s].status = active_searches[s].status]_vars

\* C3: a search is completed only when every store of it has been processed and
\* its opportunities have been tallied.
C3_CompletedAfterAllStores ==
    \A s \in Ids :
       active_searches[s].status = "completed" =>
          /\ obs[s].located
          /\ obs[s].storesRun = Len(task[s].stores)
          /\ task[s].si = Len(task[s].stores) + 1
          /\ obs[s].tallied

\* A search is completed after two stores, with an opportunity in its tally.
C3_Witness ==
    \E s \in Ids :
       /\ active_searches[s].status = "completed"
       /\ obs[s].storesRun = 2
       /\ active_searches[s].opportunities_found > 0

\* C4: a search that meets no fault of the orchestrator itself eventually is
\* completed, however many of its stores and items fail.
C4_EventuallyCompleted ==
    \A s \in 1..MaxSearches :
       (s \in Ids) ~>
          (s \in Ids /\ (active_searches[s].status = "completed" \/ obs[s].orchFault))

\* A search is completed although the scrape of a store and an item of it raised.
C4_Witness ==
    \E s \in Ids :
       /\ active_searches[s].status = "completed"
       /\ ~obs[s].orchFault
       /\ {"scrape", "item"} \subseteq obs[s].isolated

\* C5: a search whose store locator was unusable (the locator of every retailer
\* failed) ends failed, with the error message recorded.
C5_UnusableLocatorFails ==
    \A s \in Ids :
       (obs[s].locFailed = Retailers /\ task[s].pc \in {"persist", "done"}) =>
          /\ active_searches[s].status = "failed"
          /\ active_searches[s].error # None

\* The stores a locator had appended when its try block ended: those of the
\* entries before the first malformed one.
MappedBefore(retailer, page) ==
    LET bad == {i \in 1..Len(page.entries) : page.entries[i] = Malformed}
        k == IF bad = {} THEN Len(page.entries)
             ELSE (CHOOSE i \in bad : \A j \in bad : i <= j) - 1
    IN  [i \in 1..k |-> StoreRecord(retailer, page.entries[i])]

\* C6 (as the code has it): find_stores never raises and returns a list for each
\* retailer; a retailer whose locator fails contributes the stores it had mapped
\* before the failure (none when the page could not be fetched), whatever the
\* other retailer's locator does.
C6_FailedLocatorKeepsMappedStores ==
    /\ lc.pc # "raised"
    /\ lc.pc = "returned" =>
          /\ DOMAIN lc.result = Retailers
          /\ \A r \in Retailers :
                lc.result[r] = IF lc.pages[r].fetch = "ok"
                               THEN MappedBefore(r, lc.pages[r]) ELSE <<>>

\* find_stores returns the stores mapped before the failure of one locator, and
\* the stores of the other retailer, whose locator did not fail.
C6_Witness ==
    /\ lc.pc = "returned"
    /\ \E r \in Retailers, o \in Retailers :
          /\ LocatorFailed(lc.pages[r]) /\ lc.result[r] # <<>>
          /\ ~LocatorFailed(lc.pages[o]) /\ lc.result[o] # <<>>

\* C6: find_stores never raises, and a retailer whose locator fails contributes an
\* empty list.
C6_FailedLocatorGivesEmptyList ==
    /\ lc.pc # "raised"
    /\ lc.pc = "returned" =>
          \A r \in Retailers : LocatorFailed(lc.pages[r]) => lc.result[r] = <<>>

\* C7: scrape_walmart_store and scrape_homedepot_store never raise, a browser that
\* fails to start included.
C7_ScrapeNeverRaises == sc.pc # "raised"

\* C8: compare_prices never raises and returns a list for each marketplace: the
\* listings of a query that returned, the empty list for a query that raised.
C8_FailedMarketplaceGivesEmptyList ==
    /\ cp.pc # "raised"
    /\ cp.pc = "returned" =>
          /\ DOMAIN cp.result = Marketplaces
          /\ \A m \in Marketplaces :
                cp.result[m] =
                    IF cp.outcomes[m].kind = "ok" /\ (cp.upc # None \/ cp.product_name # None)
                    THEN cp.outcomes[m].listings ELSE <<>>

\* compare_prices returns the listings of one marketplace and the empty list for
\* the other, whose query raised.
C8_Witness ==
    /\ cp.pc = "returned"
    /\ \E m \in Marketplaces, o \in Marketplaces :
          /\ cp.outcomes[m].kind = "raised" /\ cp.result[m] = <<>>
          /\ cp.outcomes[o].kind = "ok" /\ cp.result[o] # <<>>

\* C9: the processing of an item without a UPC runs no price comparison and
\* creates or updates no Opportunity.
C9_NoUpcNoOpportunity ==
    (ev.search # 0 /\ ~ev.has_upc) => (~ev.compared /\ ~(ev.upserted /\ ev.committed))

\* C10: an Opportunity is created or updated only when the analysis just computed
\* for the item is profitable.
C10_UpsertOnlyWhenProfitable ==
    ev.upserted => (ev.computed /\ ev.profitable)

\* An Opportunity of a profitable analysis is saved and committed.
C10_Witness ==
    /\ ev.upserted /\ ev.profitable /\ ev.committed
    /\ \E r \in db.opportunities : r.inventory_item_id = ev.key

\* C11: when the price comparison of an item's processing saves listings, each of
\* them profitable for the item under the search's thresholds, and no database
\* call of the processing fails, that same processing upserts an Opportunity.
C11_FreshComparisonGivesOpportunity ==
    (ev.search # 0 /\ ev.compared /\ ev.fresh /\ ev.fault = "ok" /\ ev.committed)
        => ev.upserted

\* C12: the counters stores_found, items_scraped and opportunities_found of a
\* search never decrease from one state to the next.
C12_CountersNeverDecrease ==
    [][\A s \in Ids :
          /\ active_searches'[s].stores_found >= active_searches[s].stores_found
          /\ active_searches'[s].items_scraped >= active_searches[s].items_scraped
          /\ active_searches'[s].opportunities_found >=
                 active_searches[s].opportunities_found]_vars

\* Every counter of a search has grown: a store found, two items counted, an
\* opportunity tallied.
C12_Witness ==
    \E s \in Ids :
       /\ active_searches[s].stores_found >= 1
       /\ active_searches[s].items_scraped >= 2
       /\ active_searches[s].opportunities_found >= 1

\* C13: what is recorded for a failed search, in its search state and in its
\* search-history row, carries the stores_found and items_scraped reached before
\* the fault, with the error message.
C13_FailedKeepsCounters ==
    \A s \in Ids :
       (active_searches[s].status = "failed" /\ db.history[s].status = "failed") =>
          /\ active_searches[s].error # None
          /\ db.history[s].error_message = active_searches[s].error
          /\ obs[s].located => active_searches[s].stores_found = Len(task[s].stores)
          /\ db.history[s].stores_found = active_searches[s].stores_found
          /\ db.history[s].items_scraped = active_searches[s].items_scraped

\* C14: when a search completes, its items_scraped is the number of its items
\* whose processing finished without an exception.
C14_CountIsItemsDone ==
    \A s \in Ids :
       active_searches[s].status = "completed" =>
          active_searches[s].items_scraped = obs[s].itemsDone

\* C15: after any sequence of check_and_save_prices calls the table holds at most
\* one price comparison per (inventory item, marketplace).
C15_OneRowPerItemAndMarketplace ==
    sv.pc = "ready" =>
        \A key \in SaveKeys, m \in Marketplaces :
            Cardinality(RowsOfMarket(sv.rows, key, m)) <= 1

\* C16: in every analysis calculate_profit returns, is_profitable is true exactly
\* when the returned net_profit is at least min_profit_amount and the returned
\* profit_margin is at least min_profit_margin x 100.
C16_GateMatchesReturnedFigures ==
    pf.pc = "analysed" =>
        (pf.analysis.is_profitable <=>
            /\ pf.analysis.net_profit >= pf.calc.min_profit_amount
            /\ pf.analysis.profit_margin >= pf.calc.min_profit_margin * 100)

\* C17: a ProfitCalculator uses every option the caller supplied, a supplied zero
\* included, and the configured default for every option not supplied.
C17_SuppliedOptionsAreUsed ==
    pf.pc = "ready" =>
        /\ pf.calc.sales_tax_rate = IF pf.supplied.sales_tax_rate = NoNumber
                                    THEN DEFAULT_SALES_TAX ELSE pf.supplied.sales_tax_rate
        /\ pf.calc.shipping_cost = IF pf.supplied.shipping_cost = NoNumber
                                   THEN DEFAULT_SHIPPING_COST ELSE pf.supplied.shipping_cost
        /\ pf.calc.min_profit_amount = IF pf.supplied.min_profit_amount = NoNumber
                                       THEN MIN_PROFIT_AMOUNT
                                       ELSE pf.supplied.min_profit_amount
        /\ pf.calc.min_profit_margin = IF pf.supplied.min_profit_margin = NoNumber
                                       THEN MIN_PROFIT_MARGIN
                                       ELSE pf.supplied.min_profit_margin

\* C18: calculate_profit with buy_price = sell_price = p, p >= 0, returns an
\* analysis, for every marketplace tag and category, and its net_profit is <= 0.
C18_SellingAtCostNeverProfits ==
    (pf.pc \in {"analysed", "raised"} /\ pf.buy_price = pf.sell_price) =>
        /\ pf.pc = "analysed"
        /\ pf.analysis.net_profit <= 0

\* C19: the opportunity_score of every analysis lies in [0, 100].
C19_ScoreWithinBounds ==
    pf.pc = "analysed" =>
        /\ pf.analysis.opportunity_score >= 0
        /\ pf.analysis.opportunity_score <= 100 * 100

\* C20: find_best_marketplace, given at least one candidate sell price and no
\* profitable candidate, returns the candidate analysis with the highest
\* net_profit, and never None.
C20_BestOfUnprofitableIsLeastNegative ==
    LET candidates ==
            compare_marketplaces(pf.calc, pf.buy_price, pf.amazon_price, pf.ebay_price,
                                 pf.category).results
    IN  (/\ pf.pc \in {"best", "best raised"}
         /\ DOMAIN candidates # {}
         /\ \A m \in DOMAIN candidates : ~candidates[m].is_profitable) =>
            /\ pf.pc = "best"
            /\ pf.best # {}
            /\ \A b \in pf.best : \A m \in DOMAIN candidates :
                   b.net_profit >= candidates[m].net_profit

\* C21: with the default configuration, calculate_profit(10.00, 25.00, 'amazon',
\* 'Other') returns an analysis with total_buy_cost 10.80, total_fees 9.25 (referral
\* fee 3.75 at the default rate, fulfillment fee 5.50), net_profit -0.05 and
\* is_profitable false.
C21_AmazonScenario ==
    (/\ pf.pc \in {"analysed", "raised"}
     /\ pf.supplied = [sales_tax_rate |-> NoNumber, shipping_cost |-> NoNumber,
                       min_profit_amount |-> NoNumber, min_profit_margin |-> NoNumber]
     /\ pf.buy_price = 1000 /\ pf.sell_price = 2500
     /\ pf.marketplace = "amazon" /\ pf.category = "Other") =>
        /\ pf.pc = "analysed"
        /\ pf.analysis.total_buy_cost = 1080
        /\ pf.analysis.total_fees = 925
        /\ pf.analysis.net_profit = 0 - 5
        /\ ~pf.analysis.is_profitable

\* C22: every item a parser emits carries a current_price that was parsed from
\* the product and is not negative; a product whose current price is missing or
\* unparseable emits nothing.
C22_EmittedPriceWasParsed ==
    pr.pc = "returned" =>
        \A item \in pr.items :
            /\ item.current_price \in ShownPrice(pr.product)
            /\ item.current_price >= 0

\* The listings get_best_price chooses from, in the order they were collected.
AllListings == cp.result["ebay"] \o cp.result["amazon"]

\* C23: get_best_price returns a listing of minimum total_price among all the
\* listings the marketplaces returned, the first seen of those that tie, and None
\* only when no listing was returned.
C23_CheapestFirstSeen ==
    cp.pc = "best" =>
        /\ cp.best = {} <=> AllListings = <<>>
        /\ \A b \in cp.best :
              \E i \in 1..Len(AllListings) :
                 /\ AllListings[i] = b
                 /\ \A j \in 1..Len(AllListings) :
                       /\ AllListings[j].total_price >= b.total_price
                       /\ j < i => AllListings[j].total_price > b.total_price

\* get_best_price has returned the eBay listing, seen first, of two listings of
\* the two marketplaces that tie for the minimum.
C23_Witness ==
    /\ cp.pc = "best"
    /\ \E b \in cp.best :
          /\ b.marketplace = "ebay"
          /\ \E j \in 1..Len(cp.result["amazon"]) :
                cp.result["amazon"][j].total_price = b.total_price

\* C24: compare_prices returns only after every query it dispatched has finished,
\* and what it returns does not depend on the order in which they finished.
C24_JoinedAndOrderFree ==
    (cp.pc = "returned" /\ (cp.upc # None \/ cp.product_name # None)) =>
        /\ {cp.order[i] : i \in 1..Len(cp.order)} = Marketplaces
        /\ cp.result = compare_prices(cp.upc, cp.product_name, cp.outcomes).results

\* compare_prices has returned the listings of both marketplaces after the Amazon
\* query finished before the eBay query.
C24_Witness ==
    /\ cp.pc = "returned"
    /\ cp.order = <<"amazon", "ebay">>
    /\ cp.result["ebay"] # <<>> /\ cp.result["amazon"] # <<>>
    /\ cp.result["ebay"][1].total_price # cp.result["amazon"][1].total_price

RECURSIVE Power(_, _)
Power(b, n) == IF n = 0 THEN 1 ELSE b * Power(b, n - 1)

\* C25: retry_with_backoff calls func at most max_retries times; it stops at the
\* first call that succeeds and returns its result; between the failed call k and
\* the call k+1 it waits initial_delay x backoff_factor^(k-1); it does not wait
\* after the last call; when every call fails it re-raises the last exception.
C25_BoundedRetryWithBackoff ==
    rt.pc # "idle" =>
        /\ rt.calls <= rt.max_retries
        /\ \A k \in 1..Len(rt.waits) :
              /\ k < rt.calls \/ (k = rt.calls /\ rt.pc = "loop")
              /\ rt.outcomes[k] = "fail"
              /\ rt.waits[k] = rt.initial_delay * Power(rt.backoff_factor, k - 1)
        /\ rt.pc \in {"returned", "raised"} =>
              Len(rt.waits) = IF rt.calls = 0 THEN 0 ELSE rt.calls - 1
        /\ (rt.pc = "returned" /\ rt.calls > 0) =>
              /\ rt.outcomes[rt.calls] = "ok"
              /\ rt.result = rt.calls
              /\ \A k \in 1..(rt.calls - 1) : rt.outcomes[k] # "ok"
        /\ rt.pc = "raised" =>
              /\ rt.exception = rt.calls
              /\ \A k \in 1..rt.calls : rt.outcomes[k] # "ok"
        /\ (/\ rt.pc \in {"returned", "raised"} /\ rt.max_retries > 0
            /\ \A k \in 1..rt.max_retries : rt.outcomes[k] = "fail") =>
              (rt.pc = "raised" /\ rt.exception = rt.max_retries)

\* Three calls have failed, with two waits between them, and the exception of the
\* third is raised.
C25_Witness ==
    /\ rt.pc = "raised"
    /\ rt.calls = 3
    /\ rt.backoff_factor = 2
    /\ rt.waits = <<rt.initial_delay, 2 * rt.initial_delay>>

\* C26: the opportunity score is min(100, min(40, net_profit / 0.50)
\* + min(30, profit_margin / 2) + min(30, roi_percent / 3)): the profit part reaches
\* its 40 points at a net profit of $20.
C26_ScoreFormula ==
    pf.pc = "analysed" =>
        LET net == pf.analysis.net_profit
            profit_part == Min(40000, net * 20)
            margin_part == Min(30000, RoundDiv(PercentOf(net, pf.sell_price), 2))
            roi_part == Min(30000, RoundDiv(PercentOf(net, pf.analysis.total_buy_cost), 3))
        IN  pf.analysis.opportunity_score
                = RoundDiv(Min(100000, profit_part + margin_part + roi_part), 10)

\* C27: for an item with several stored price comparisons, every one of them has
\* its ranking key net_profit set, and the comparison selected for the profit
\* analysis is the one the stored values rank first, whatever the order in which
\* the comparisons were stored.
C27_SelectionRankedByStoredValues ==
    LET mine == {sv.sess.rows[i] : i \in RowsOf(sv.sess.rows, sv.key)}
    IN  (sv.pc = "analysed" /\ Cardinality(mine) >= 2) =>
            /\ \A r \in mine : r.net_profit # NoNumber
            /\ \A r \in mine : r # sv.selected => r.net_profit < sv.selected.net_profit

\* C30: when an item has been processed again and its analysis is not profitable
\* any more, or no comparison exists for it, no valid Opportunity remains for it.
C30_NoOpportunityWithoutProfit ==
    (/\ sv.pc = "ready" /\ sv.calls > 0
     /\ (sv.selected = NoRow \/ (sv.done.computed /\ ~sv.done.profitable))) =>
        ~\E o \in sv.opps : o.inventory_item_id = sv.key /\ o.is_valid

\* C28: store records are keyed by (retailer, store_id): no step changes or removes
\* the stored record of a store when a store of another retailer with the same
\* store_id is upserted.
C28_StoresKeyedByRetailerAndId ==
    [][\A r \in db.stores :
          (\E n \in db.stores' : n.store_id = r.store_id /\ n.retailer # r.retailer)
              => r \in db.stores']_vars

\* C29: the opportunities_found of a completed search is the number of
\* Opportunities emitted for the items that search processed.
C29_CountIsOwnOpportunities ==
    ty.pc # "idle" =>
        (ty.status = "completed" => ty.opportunities_found = Cardinality(ty.emitted))

====
